---- MODULE Spec2Model ----
(***************************************************************************)
(* Three-stage JWT analysis pipeline of LFbackend:                         *)
(*   JWTLexer (app/analyzers/lexer.py), JWTParser (app/analyzers/parser.py)*)
(*   JWTSemanticAnalyzer (app/analyzers/semantic.py), the claim decoding   *)
(*   utility (app/services/jwt_service.py, app/utils/base64url.py) and the *)
(*   orchestrator analyze_jwt (app/routes/jwt_routes.py).                  *)
(*                                                                         *)
(* Strings are sequences of one-character strings, byte strings are        *)
(* sequences of integers 0..255.  The wall clock is kept in half seconds   *)
(* (now2 = 2 * now) so that a clock reading strictly between two integer   *)
(* timestamps is representable.                                            *)
(***************************************************************************)
EXTENDS Integers, Sequences, FiniteSets, TLC

VARIABLES
    token,      \* the raw input string of analyze_jwt
    pc,         \* position of the handler / of the stand-alone stage
    tokens,     \* lexer.tokens, the token list handed to the parser
    phases,     \* result["phases"]: phase name -> stage report
    decoded,    \* outcome of JWTService.decode_token_no_verify
    header,     \* header value given to JWTSemanticAnalyzer
    payload,    \* payload value given to JWTSemanticAnalyzer
    now2,       \* wall clock read by _validate_temporal, in half seconds
    response    \* what the handler returns (status code and body)

vars == <<token, pc, tokens, phases, decoded, header, payload, now2, response>>

----------------------------------------------------------------------------
(* Bounds of the model *)

MaxParts == 4      \* inputs have 1..MaxParts dot-separated parts
MaxTokens == 7     \* stand-alone parser inputs have 0..MaxTokens tokens
MaxTime == 3       \* integer timestamps range over 0..MaxTime
MaxBytes == 4      \* stand-alone codec inputs have 0..MaxBytes bytes

----------------------------------------------------------------------------
(* Generic helpers *)

Range(f) == {f[i] : i \in DOMAIN f}

RECURSIVE Repeat(_, _)
Repeat(c, n) == IF n <= 0 THEN <<>> ELSE <<c>> \o Repeat(c, n - 1)

----------------------------------------------------------------------------
(* app/analyzers/lexer.py *)

UPPER == {"A","B","C","D","E","F","G","H","I","J","K","L","M",
          "N","O","P","Q","R","S","T","U","V","W","X","Y","Z"}
LOWER == {"a","b","c","d","e","f","g","h","i","j","k","l","m",
          "n","o","p","q","r","s","t","u","v","w","x","y","z"}
DIGIT == {"0","1","2","3","4","5","6","7","8","9"}

\* JWTLexer.ALPHABET
ALPHABET == UPPER \cup LOWER \cup DIGIT \cup {"_", "-"}

\* str.split('.'): the maximal dot-free runs, always at least one part
RECURSIVE SplitAcc(_, _, _)
SplitAcc(s, cur, acc) ==
    IF s = <<>> THEN Append(acc, cur)
    ELSE IF Head(s) = "." THEN SplitAcc(Tail(s), <<>>, Append(acc, cur))
    ELSE SplitAcc(Tail(s), Append(cur, Head(s)), acc)

Split(s) == SplitAcc(s, <<>>, <<>>)

\* JWTLexer.BASE64URL_PATTERN.match(text): ^[A-Za-z0-9_-]+$ , where Python's
\* '$' also matches just before one trailing line break
BASE64URL_PATTERN_match(text) ==
    LET n == Len(text)
        allIn(k) == \A i \in 1..k : text[i] \in ALPHABET
    IN  \/ n >= 1 /\ allIn(n)
        \/ n >= 2 /\ text[n] = "\n" /\ allIn(n - 1)

\* variant of _is_valid_base64url whose pattern leaves the digits out
_is_valid_base64url_NoDigits(text) ==
    text # <<>> /\ \A i \in 1..Len(text) : text[i] \in UPPER \cup LOWER \cup {"_", "-"}

\* JWTLexer._is_valid_base64url
_is_valid_base64url(text) ==
    IF text = <<>> THEN FALSE ELSE BASE64URL_PATTERN_match(text)

\* JWTLexer._find_invalid_chars: the set of offending characters
\* (the empty set stands for the text "ninguno")
_find_invalid_chars(text) == {text[i] : i \in {j \in 1..Len(text) : text[j] \notin ALPHABET}}

Token(type, value, position) == [type |-> type, value |-> value, position |-> position]

LexError(kind, segment, n, chars) ==
    [kind |-> kind, segment |-> segment, n |-> n, chars |-> chars]

\* variant of ScanSegment that emits INVALID without recording an error
ScanSegment_NoError(kind, part, current_pos) ==
    IF _is_valid_base64url(part)
    THEN [tok |-> Token(kind, part, current_pos), errs |-> <<>>]
    ELSE [tok |-> Token("INVALID", part, current_pos), errs |-> <<>>]

\* variant of ScanSegment that counts offsets from the start of the segment
ScanSegment_FromSegmentStart(kind, part, current_pos) ==
    IF _is_valid_base64url(part)
    THEN [tok |-> Token(kind, part, 0), errs |-> <<>>]
    ELSE [tok |-> Token("INVALID", part, 0),
          errs |-> <<LexError("invalid_chars", kind, 0, _find_invalid_chars(part))>>]

\* one "Tokenizar X" block of tokenize: the token and the errors it appends
ScanSegment(kind, part, current_pos) ==
    IF _is_valid_base64url(part)
    THEN [tok |-> Token(kind, part, current_pos), errs |-> <<>>]
    ELSE [tok |-> Token("INVALID", part, current_pos),
          errs |-> <<LexError("invalid_chars", kind, current_pos,
                              _find_invalid_chars(part))>>]

\* variant of IncompleteToken that forgets to record the error
IncompleteToken_Silent(parts) == [tokens |-> <<>>, errors |-> <<>>]

\* tokenize on fewer than 3 parts: one error, no token
IncompleteToken(parts) ==
    [tokens |-> <<>>, errors |-> <<LexError("incomplete", "", Len(parts), {})>>]

\* variant of the body of tokenize that lets parts after the third pass
\* without an error
TokenizeParts_ExtraPartsPass(parts) ==
        IF Len(parts) < 3 THEN IncompleteToken(parts)
        ELSE
        LET h    == ScanSegment("HEADER", parts[1], 0)
            pos1 == Len(parts[1])
            p    == ScanSegment("PAYLOAD", parts[2], pos1 + 1)
            pos3 == pos1 + 1 + Len(parts[2])
            s    == ScanSegment("SIGNATURE", parts[3], pos3 + 1)
            pos5 == pos3 + 1 + Len(parts[3])
        IN  [tokens |-> <<h.tok, Token("DOT", <<".">>, pos1), p.tok,
                          Token("DOT", <<".">>, pos3), s.tok,
                          Token("EOF", <<>>, pos5)>>,
             errors |-> h.errs \o p.errs \o s.errs]

\* the body of tokenize on the parts of the input
TokenizeParts(parts) ==
        IF Len(parts) < 3 THEN IncompleteToken(parts)
        ELSE
        LET e0   == IF Len(parts) > 3
                    THEN <<LexError("too_many_parts", "", Len(parts), {})>>
                    ELSE <<>>
            pos0 == 0
            h    == ScanSegment("HEADER", parts[1], pos0)
            pos1 == pos0 + Len(parts[1])
            dot1 == Token("DOT", <<".">>, pos1)
            pos2 == pos1 + 1
            p    == ScanSegment("PAYLOAD", parts[2], pos2)
            pos3 == pos2 + Len(parts[2])
            dot2 == Token("DOT", <<".">>, pos3)
            pos4 == pos3 + 1
            s    == ScanSegment("SIGNATURE", parts[3], pos4)
            pos5 == pos4 + Len(parts[3])
            eof  == Token("EOF", <<>>, pos5)
        IN  [tokens |-> <<h.tok, dot1, p.tok, dot2, s.tok, eof>>,
             errors |-> e0 \o h.errs \o p.errs \o s.errs]

\* JWTLexer.tokenize: (tokens, errors)
tokenize(input) == TokenizeParts(Split(input))

\* the dictionary JWTLexer.analyze returns for the result r of tokenize
LexerReport(r) ==
    [phase |-> "lexical",
     success |-> Len(r.errors) = 0,
     tokens |-> r.tokens,
     token_count |-> Len(r.tokens),
     errors |-> r.errors]

\* JWTLexer.analyze: the lexical stage report
LexerAnalyze(input) == LexerReport(tokenize(input))

----------------------------------------------------------------------------
(* app/analyzers/parser.py *)

\* Python's None (an absent node, token or report)
None == [none |-> TRUE]

\* ParseNode
ParseNode(symbol, value, children) ==
    [symbol |-> symbol, value |-> value, children |-> children]

ParseError(kind, expected, found, position) ==
    [kind |-> kind, expected |-> expected, found |-> found, position |-> position]

\* JWTParser.__init__: cursor and error list
ParserInit == [current |-> 0, errors |-> <<>>]

\* JWTParser._current_token: a synthetic EOF once the cursor is past the end
_current_token(toks, st) ==
    IF st.current < Len(toks) THEN toks[st.current + 1]
    ELSE Token("EOF", <<>>, -1)

\* JWTParser._consume: (parser state, token or None)
_consume(toks, st, expected_type) ==
    LET tok == _current_token(toks, st)
    IN  IF tok.type # expected_type
        THEN [st |-> [st EXCEPT !.errors =
                        Append(@, ParseError("syntax", expected_type, tok.type, tok.position))],
              tok |-> None]
        ELSE [st |-> [st EXCEPT !.current = @ + 1], tok |-> tok]

\* the common body of _parse_header, _parse_payload and _parse_signature:
\* (parser state, node or None)
ParseSegment(toks, st, kind) ==
    LET tok == _current_token(toks, st)
    IN  IF tok.type = "INVALID"
        THEN [st |-> [current |-> st.current + 1,
                      errors |-> Append(st.errors,
                                   ParseError("invalid_segment", kind, tok.type, tok.position))],
              node |-> None]
        ELSE IF tok.type # kind
        THEN [st |-> [st EXCEPT !.errors =
                        Append(@, ParseError("expected", kind, tok.type, -1))],
              node |-> None]
        ELSE [st |-> [st EXCEPT !.current = @ + 1],
              node |-> ParseNode(kind, <<>>,
                         <<ParseNode("BASE64URL_STRING", tok.value, <<>>)>>)]

\* variant of _parse_header that gives up on a wrong token without an error
_parse_header_Silent(toks, st) ==
    IF _current_token(toks, st).type = "HEADER"
    THEN ParseSegment(toks, st, "HEADER")
    ELSE [st |-> st, node |-> None]

\* JWTParser._parse_header
_parse_header(toks, st) == ParseSegment(toks, st, "HEADER")

\* JWTParser._parse_payload
_parse_payload(toks, st) == ParseSegment(toks, st, "PAYLOAD")

\* variant of _parse_signature copied from _parse_payload with the kind left
_parse_signature_AsPayload(toks, st) == ParseSegment(toks, st, "PAYLOAD")

\* JWTParser._parse_signature
_parse_signature(toks, st) == ParseSegment(toks, st, "SIGNATURE")

AddError(st, kind) == [st EXCEPT !.errors = Append(@, ParseError(kind, "", "", -1))]

\* JWTParser._parse_jwt: (parser state, tree or None)
_parse_jwt(toks, st0) ==
    LET r1 == _parse_header(toks, st0) IN
    IF r1.node = None THEN [st |-> r1.st, node |-> None] ELSE
    LET r2 == _consume(toks, r1.st, "DOT") IN
    IF r2.tok = None THEN [st |-> AddError(r2.st, "missing_dot1"), node |-> None] ELSE
    LET r3 == _parse_payload(toks, r2.st) IN
    IF r3.node = None THEN [st |-> r3.st, node |-> None] ELSE
    LET r4 == _consume(toks, r3.st, "DOT") IN
    IF r4.tok = None THEN [st |-> AddError(r4.st, "missing_dot2"), node |-> None] ELSE
    LET r5 == _parse_signature(toks, r4.st) IN
    IF r5.node = None THEN [st |-> r5.st, node |-> None] ELSE
    LET r6 == _consume(toks, r5.st, "EOF") IN
    IF r6.tok = None THEN [st |-> AddError(r6.st, "trailing"), node |-> None] ELSE
    [st |-> r6.st,
     node |-> ParseNode("JWT", <<>>,
                <<r1.node, ParseNode("DOT", <<".">>, <<>>), r3.node,
                  ParseNode("DOT", <<".">>, <<>>), r5.node>>)]

\* the tuple JWTParser.parse returns for the outcome r of _parse_jwt, with
\* the final cursor
ParseResult(r) ==
    [parse_tree |-> r.node,
     errors |-> r.st.errors,
     success |-> Len(r.st.errors) = 0 /\ r.node # None,
     current |-> r.st.current]

\* JWTParser.parse: (tree, errors, success)
parse(toks) == ParseResult(_parse_jwt(toks, ParserInit))

\* the dictionary JWTParser.analyze returns for the result r of parse
ParserReport(r) ==
    [phase |-> "syntactic",
     success |-> r.success,
     parse_tree |-> r.parse_tree,
     errors |-> r.errors,
     tokens_consumed |-> r.current]

\* JWTParser.analyze: the syntactic stage report
ParserAnalyze(toks) == ParserReport(parse(toks))

----------------------------------------------------------------------------
(* app/utils/base64url.py *)

\* the digits of Base64URL in value order (digit value = index - 1)
B64URL_DIGITS == <<
    "A","B","C","D","E","F","G","H","I","J","K","L","M","N","O","P",
    "Q","R","S","T","U","V","W","X","Y","Z","a","b","c","d","e","f",
    "g","h","i","j","k","l","m","n","o","p","q","r","s","t","u","v",
    "w","x","y","z","0","1","2","3","4","5","6","7","8","9","-","_" >>

\* urlsafe_b64decode reads '-' and '_' as '+' and '/', which stay digits too
IsB64Digit(c) == c \in Range(B64URL_DIGITS) \cup {"+", "/"}

B64Value(c) ==
    IF c = "+" THEN 62 ELSE IF c = "/" THEN 63
    ELSE (CHOOSE i \in 1..64 : B64URL_DIGITS[i] = c) - 1

\* binascii.a2b_base64 in its default non-strict mode, one character at a time;
\* st = [quad_pos, leftchar, pads, out, done]
RECURSIVE a2b_base64(_, _, _)
a2b_base64(s, i, st) ==
    IF st.done \/ i > Len(s) THEN st
    ELSE LET c == s[i] IN
        IF c = "="
        THEN IF st.quad_pos >= 2
             THEN IF st.quad_pos + st.pads + 1 >= 4
                  THEN [st EXCEPT !.pads = @ + 1, !.done = TRUE]
                  ELSE a2b_base64(s, i + 1, [st EXCEPT !.pads = @ + 1])
             ELSE a2b_base64(s, i + 1, st)
        ELSE IF ~IsB64Digit(c) THEN a2b_base64(s, i + 1, st)
        ELSE LET v == B64Value(c) IN
             a2b_base64(s, i + 1,
                CASE st.quad_pos = 0 ->
                        [st EXCEPT !.pads = 0, !.quad_pos = 1, !.leftchar = v]
                  [] st.quad_pos = 1 ->
                        [st EXCEPT !.pads = 0, !.quad_pos = 2,
                                   !.out = Append(@, st.leftchar * 4 + v \div 16),
                                   !.leftchar = v % 16]
                  [] st.quad_pos = 2 ->
                        [st EXCEPT !.pads = 0, !.quad_pos = 3,
                                   !.out = Append(@, st.leftchar * 16 + v \div 4),
                                   !.leftchar = v % 4]
                  [] OTHER ->
                        [st EXCEPT !.pads = 0, !.quad_pos = 0,
                                   !.out = Append(@, st.leftchar * 64 + v),
                                   !.leftchar = 0])

\* the end of a2b_base64: ok = FALSE stands for the binascii.Error raised
\* when the digits do not fill whole bytes
A2bResult(st) ==
    IF st.done \/ st.quad_pos = 0
    THEN [ok |-> TRUE, bytes |-> st.out]
    ELSE [ok |-> FALSE, bytes |-> <<>>]

\* base64.urlsafe_b64decode
urlsafe_b64decode(s) ==
    A2bResult(a2b_base64(s, 1,
        [quad_pos |-> 0, leftchar |-> 0, pads |-> 0, out |-> <<>>, done |-> FALSE]))

\* base64url_decode: pad to a multiple of 4 and decode
base64url_decode(input_str) ==
    LET rem == Len(input_str) % 4
    IN  urlsafe_b64decode(IF rem # 0 THEN input_str \o Repeat("=", 4 - rem)
                          ELSE input_str)

\* the Base64URL digit of a 6-bit value (urlsafe_b64encode writes '-' and
\* '_' where b64encode writes '+' and '/')
B64Digit(v) == B64URL_DIGITS[v + 1]

\* binascii.b2a_base64 behind urlsafe_b64encode: 4 digits per 3 bytes, a
\* last group of 1 or 2 bytes padded with '=' to 4 characters
RECURSIVE urlsafe_b64encode(_)
urlsafe_b64encode(b) ==
    IF Len(b) = 0 THEN <<>>
    ELSE IF Len(b) = 1
    THEN <<B64Digit(b[1] \div 4), B64Digit((b[1] % 4) * 16), "=", "=">>
    ELSE IF Len(b) = 2
    THEN <<B64Digit(b[1] \div 4), B64Digit((b[1] % 4) * 16 + b[2] \div 16),
           B64Digit((b[2] % 16) * 4), "=">>
    ELSE <<B64Digit(b[1] \div 4), B64Digit((b[1] % 4) * 16 + b[2] \div 16),
           B64Digit((b[2] % 16) * 4 + b[3] \div 64), B64Digit(b[3] % 64)>>
         \o urlsafe_b64encode(SubSeq(b, 4, Len(b)))

\* bytes.rstrip(chars)
RECURSIVE rstrip(_, _)
rstrip(s, chars) ==
    IF s # <<>> /\ s[Len(s)] \in chars THEN rstrip(SubSeq(s, 1, Len(s) - 1), chars)
    ELSE s

\* variant of base64url_encode that keeps the padding
base64url_encode_Padded(input_bytes) == urlsafe_b64encode(input_bytes)

\* base64url_encode
base64url_encode(input_bytes) == rstrip(urlsafe_b64encode(input_bytes), {"="})

----------------------------------------------------------------------------
(* json.loads, as used by app/services/jwt_service.py *)

\* the printable ASCII characters, code 32 .. 126
ASCII_PRINTABLE == <<
    " ","!","\"","#","$","%","&","'","(",")","*","+",
    ",","-",".","/","0","1","2","3","4","5","6","7",
    "8","9",":",";","<","=",">","?","@","A","B","C",
    "D","E","F","G","H","I","J","K","L","M","N","O",
    "P","Q","R","S","T","U","V","W","X","Y","Z","[",
    "\\","]","^","_","<backtick>","a","b","c","d","e","f","g",
    "h","i","j","k","l","m","n","o","p","q","r","s",
    "t","u","v","w","x","y","z","{","|","}","~" >>

\* bytes.decode: the character of a byte.  Control characters other than
\* white space can occur nowhere in a JSON text; bytes the model does not
\* decode (NUL, DEL, non-ASCII) are marked so that no result rests on them.
Chr(b) ==
    IF b >= 32 /\ b <= 126 THEN ASCII_PRINTABLE[b - 31]
    ELSE IF b = 9 THEN "\t" ELSE IF b = 10 THEN "\n" ELSE IF b = 13 THEN "\r"
    ELSE IF b >= 1 /\ b <= 31 THEN "<ctrl>"
    ELSE "<unmodelled>"

Decode(bytes) == [i \in 1..Len(bytes) |-> Chr(bytes[i])]

\* a JSON value as the Python object json.loads builds: kind is the Python
\* type name; s the text of a str; n the value of an int or bool; map the
\* members of a top-level dict (members of nested containers are not kept)
JV(kind, s, n, map) == [kind |-> kind, s |-> s, n |-> n, map |-> map]
JStr(s)   == JV("str", s, 0, <<>>)
JInt(n)   == JV("int", "", n, <<>>)
JBool(b)  == JV("bool", "", IF b THEN 1 ELSE 0, <<>>)
JFloat    == JV("float", "", 0, <<>>)
JNull     == JV("NoneType", "", 0, <<>>)
JList     == JV("list", "", 0, <<>>)
JDict(m)  == JV("dict", "", 0, m)

WS == {" ", "\t", "\n", "\r"}

At(t, i) == IF i >= 1 /\ i <= Len(t) THEN t[i] ELSE "<end>"

RECURSIVE SkipWs(_, _)
SkipWs(t, i) == IF At(t, i) \in WS THEN SkipWs(t, i + 1) ELSE i

StartsWith(t, i, lit) ==
    /\ i + Len(lit) - 1 <= Len(t)
    /\ \A k \in 1..Len(lit) : t[i + k - 1] = lit[k]

RECURSIVE SkipDigits(_, _)
SkipDigits(t, i) == IF At(t, i) \in DIGIT THEN SkipDigits(t, i + 1) ELSE i

DigitValue(c) == CHOOSE d \in 0..9 : ASCII_PRINTABLE[17 + d] = c

RECURSIVE DigitsValue(_, _, _, _)
DigitsValue(t, i, j, acc) ==
    IF i >= j THEN acc ELSE DigitsValue(t, i + 1, j, 10 * acc + DigitValue(t[i]))

Fail == [ok |-> FALSE, i |-> 0, val |-> JNull]
Ok(i, v) == [ok |-> TRUE, i |-> i, val |-> v]
OrElse(r, alt) == IF r.ok THEN r ELSE alt

\* json.scanner NUMBER_RE: (-?(?:0|[1-9]\d*))(\.\d+)?([eE][-+]?\d+)?
\* iEnd, fEnd, eEnd: the ends of the integer part, the fraction, the exponent
NumberValue(t, neg, i0, iEnd, eEnd) ==
    IF eEnd = iEnd
    THEN Ok(iEnd, JInt(IF neg THEN 0 - DigitsValue(t, i0, iEnd, 0)
                       ELSE DigitsValue(t, i0, iEnd, 0)))
    ELSE Ok(eEnd, JFloat)

ExponentEnd(t, fEnd, e0) ==
    IF At(t, fEnd) \in {"e", "E"} /\ At(t, e0) \in DIGIT THEN SkipDigits(t, e0) ELSE fEnd

ScanExponent(t, neg, i0, iEnd, fEnd) ==
    NumberValue(t, neg, i0, iEnd,
        ExponentEnd(t, fEnd, IF At(t, fEnd + 1) \in {"+", "-"} THEN fEnd + 2 ELSE fEnd + 1))

ScanFraction(t, neg, i0, iEnd) ==
    ScanExponent(t, neg, i0, iEnd,
        IF At(t, iEnd) = "." /\ At(t, iEnd + 1) \in DIGIT
        THEN SkipDigits(t, iEnd + 1) ELSE iEnd)

ScanInteger(t, neg, i0) ==
    IF At(t, i0) \notin DIGIT THEN Fail
    ELSE ScanFraction(t, neg, i0, IF At(t, i0) = "0" THEN i0 + 1 ELSE SkipDigits(t, i0))

ScanNumber(t, i) ==
    IF At(t, i) = "-" THEN ScanInteger(t, TRUE, i + 1) ELSE ScanInteger(t, FALSE, i)

\* json.decoder.scanstring(strict=True) from the character after the opening
\* quote: control characters are rejected; of the escapes only the two-
\* character ones standing for a modelled character are decoded
RECURSIVE ScanString(_, _, _)
ScanString(t, i, acc) ==
    LET c == At(t, i)
        e == At(t, i + 1)
        bad == [ok |-> FALSE, i |-> 0, s |-> ""]
    IN  IF c = "\"" THEN [ok |-> TRUE, i |-> i + 1, s |-> acc]
        ELSE IF c \in {"<end>", "<ctrl>", "<unmodelled>", "\t", "\n", "\r"} THEN bad
        ELSE IF c # "\\" THEN ScanString(t, i + 1, acc \o c)
        ELSE IF e \in {"\"", "\\", "/", "n", "t", "r"}
        THEN ScanString(t, i + 2,
                acc \o (IF e = "n" THEN "\n" ELSE IF e = "t" THEN "\t"
                        ELSE IF e = "r" THEN "\r" ELSE e))
        ELSE bad

StringValue(r) == IF r.ok THEN Ok(r.i, JStr(r.s)) ELSE Fail

PutMember(m, key, v) == [k \in DOMAIN m \cup {key} |-> IF k = key THEN v ELSE m[k]]

RECURSIVE ScanOnce(_, _), ScanMembers(_, _, _), ScanElements(_, _)
RECURSIVE MemberKey(_, _, _), MemberColon(_, _, _, _), MemberValue(_, _, _, _)
RECURSIVE MemberEnd(_, _, _), ElementEnd(_, _)

\* json.scanner scan_once: the value starting at t[i]
ScanOnce(t, i) ==
    LET c == At(t, i) IN
    IF c = "\"" THEN StringValue(ScanString(t, i + 1, ""))
    ELSE IF c = "{" THEN
        IF At(t, SkipWs(t, i + 1)) = "}" THEN Ok(SkipWs(t, i + 1) + 1, JDict(<<>>))
        ELSE ScanMembers(t, SkipWs(t, i + 1), <<>>)
    ELSE IF c = "[" THEN
        IF At(t, SkipWs(t, i + 1)) = "]" THEN Ok(SkipWs(t, i + 1) + 1, JList)
        ELSE ScanElements(t, SkipWs(t, i + 1))
    ELSE IF StartsWith(t, i, <<"n","u","l","l">>) THEN Ok(i + 4, JNull)
    ELSE IF StartsWith(t, i, <<"t","r","u","e">>) THEN Ok(i + 4, JBool(TRUE))
    ELSE IF StartsWith(t, i, <<"f","a","l","s","e">>) THEN Ok(i + 5, JBool(FALSE))
    ELSE OrElse(ScanNumber(t, i),
        IF StartsWith(t, i, <<"N","a","N">>) THEN Ok(i + 3, JFloat)
        ELSE IF StartsWith(t, i, <<"I","n","f","i","n","i","t","y">>) THEN Ok(i + 8, JFloat)
        ELSE IF StartsWith(t, i, <<"-","I","n","f","i","n","i","t","y">>) THEN Ok(i + 9, JFloat)
        ELSE Fail)

\* json.decoder.JSONObject from a member's opening quote: key, ':', value,
\* then '}' or ',' and the next member; a repeated key keeps its last value
ScanMembers(t, i, m) ==
    IF At(t, i) # "\"" THEN Fail ELSE MemberKey(t, ScanString(t, i + 1, ""), m)

MemberKey(t, k, m) ==
    IF ~k.ok THEN Fail ELSE MemberColon(t, k.s, SkipWs(t, k.i), m)

MemberColon(t, key, c, m) ==
    IF At(t, c) # ":" THEN Fail
    ELSE MemberValue(t, key, ScanOnce(t, SkipWs(t, c + 1)), m)

MemberValue(t, key, v, m) ==
    IF ~v.ok THEN Fail ELSE MemberEnd(t, PutMember(m, key, v.val), SkipWs(t, v.i))

MemberEnd(t, m, e) ==
    IF At(t, e) = "}" THEN Ok(e + 1, JDict(m))
    ELSE IF At(t, e) # "," THEN Fail
    ELSE ScanMembers(t, SkipWs(t, e + 1), m)

\* json.decoder.JSONArray from an element's first character
ScanElements(t, i) == ElementEnd(t, ScanOnce(t, i))

ElementEnd(t, v) ==
    IF ~v.ok THEN Fail
    ELSE IF At(t, SkipWs(t, v.i)) = "]" THEN Ok(SkipWs(t, v.i) + 1, JList)
    ELSE IF At(t, SkipWs(t, v.i)) # "," THEN Fail
    ELSE ScanElements(t, SkipWs(t, SkipWs(t, v.i) + 1))

LoadsResult(t, r) ==
    IF r.ok /\ SkipWs(t, r.i) = Len(t) + 1
    THEN [ok |-> TRUE, val |-> r.val]
    ELSE [ok |-> FALSE, val |-> JNull]

\* json.loads(text): one value surrounded by white space, nothing else;
\* ok = FALSE stands for the exception it raises
LoadsText(t) == LoadsResult(t, ScanOnce(t, SkipWs(t, 1)))

\* json.loads(bytes)
json_loads(bytes) == LoadsText(Decode(bytes))

\* byte strings whose decoding or escapes the model of json.loads leaves out
Unmodelled(bytes) ==
    LET t == Decode(bytes) IN
    \E i \in 1..Len(t) :
        \/ t[i] = "<unmodelled>"
        \/ t[i] = "\\" /\ At(t, i + 1) \in {"b", "f", "u"}

----------------------------------------------------------------------------
(* app/services/jwt_service.py *)

DecodeFailure(e) ==
    [ok |-> FALSE, error |-> e, header |-> JNull, payload |-> JNull,
     signature_b64url |-> <<>>]

\* the try block of decode_token_no_verify and its return value
DecodeJson(h, p, signature) ==
    IF ~h.ok \/ ~p.ok THEN DecodeFailure("Invalid JSON structure")
    ELSE [ok |-> TRUE, error |-> "", header |-> h.val, payload |-> p.val,
          signature_b64url |-> signature]

\* the two base64url_decode calls of decode_token_no_verify
DecodeSegments(header_b, payload_b, signature) ==
    IF ~header_b.ok \/ ~payload_b.ok THEN DecodeFailure("binascii.Error")
    ELSE DecodeJson(json_loads(header_b.bytes), json_loads(payload_b.bytes), signature)

DecodeParts(parts) ==
    IF Len(parts) # 3 THEN DecodeFailure("Malformed token")
    ELSE DecodeSegments(base64url_decode(parts[1]), base64url_decode(parts[2]), parts[3])

\* JWTService.decode_token_no_verify; ok = FALSE stands for the exception
\* raised (error names it)
decode_token_no_verify(tok) == DecodeParts(Split(tok))

----------------------------------------------------------------------------
(* app/analyzers/semantic.py *)

\* JWTSemanticAnalyzer.STANDARD_CLAIMS in declaration order, with the Python
\* types isinstance accepts for each
STANDARD_CLAIMS == <<"iss", "sub", "aud", "exp", "nbf", "iat", "jti">>

StandardClaimType(claim) ==
    IF claim = "aud" THEN {"str", "list"}
    ELSE IF claim \in {"exp", "nbf", "iat"} THEN {"int"}
    ELSE {"str"}

\* JWTSemanticAnalyzer.REQUIRED_HEADER_FIELDS
REQUIRED_HEADER_FIELDS == <<"typ", "alg">>

\* REQUIRED_HEADER_FIELDS["alg"]["allowed"]
allowed_algs == <<"HS256", "HS384", "HS512", "RS256", "RS384", "RS512",
                  "ES256", "ES384", "ES512", "none">>

\* isinstance(value, types): bool is a subclass of int in Python
isinstance(value, types) ==
    \/ value.kind \in types
    \/ value.kind = "bool" /\ "int" \in types

\* value == "text" for a Python str literal
EqualsStr(value, text) == value.kind = "str" /\ value.s = text

Has(obj, key) == key \in DOMAIN obj.map

SemError(kind, claim, value) == [kind |-> kind, claim |-> claim, value |-> value]

\* JWTSemanticAnalyzer.__init__: the two diagnostic lists
SemInit == [errors |-> <<>>, warnings |-> <<>>]

AddErr(st, e)  == [st EXCEPT !.errors = Append(@, e)]
AddWarn(st, w) == [st EXCEPT !.warnings = Append(@, w)]

\* SymbolTable.add_symbol
add_symbol(symbols, name, value, claim_type, scope) ==
    PutMember(symbols, name,
        [name |-> name, value |-> value, type |-> value.kind,
         claim_type |-> claim_type, scope |-> scope])

\* the classification of a name by the scope it is added under
ClaimType(name, scope) ==
    IF scope = "header"
    THEN IF name \in {"typ", "alg", "kid"} THEN "standard" ELSE "private"
    ELSE IF name \in Range(STANDARD_CLAIMS) THEN "standard" ELSE "private"

\* one loop of _build_symbol_table: add_symbol for every entry of obj
RECURSIVE AddSymbols(_, _, _, _)
AddSymbols(symbols, obj, keys, scope) ==
    IF keys = {} THEN symbols
    ELSE LET k == CHOOSE x \in keys : TRUE
         IN  AddSymbols(add_symbol(symbols, k, obj.map[k], ClaimType(k, scope), scope),
                        obj, keys \ {k}, scope)

\* variant of _build_symbol_table that adds the payload entries first
_build_symbol_table_PayloadFirst(hdr, pld) ==
    AddSymbols(AddSymbols(<<>>, pld, DOMAIN pld.map, "payload"),
               hdr, DOMAIN hdr.map, "header")

\* JWTSemanticAnalyzer._build_symbol_table: header entries, then payload entries
_build_symbol_table(hdr, pld) ==
    AddSymbols(AddSymbols(<<>>, hdr, DOMAIN hdr.map, "header"),
               pld, DOMAIN pld.map, "payload")

\* variant of _validate_header that only warns about an unknown algorithm
_validate_header_UnknownAlgWarns(hdr, st0) ==
    IF ~Has(hdr, "alg")
    THEN [st |-> AddErr(st0, SemError("missing_alg", "alg", JNull)), valid |-> FALSE]
    ELSE IF ~(\E i \in 1..Len(allowed_algs) : EqualsStr(hdr.map["alg"], allowed_algs[i]))
    THEN [st |-> AddWarn(st0, "unknown_alg"), valid |-> TRUE]
    ELSE [st |-> st0, valid |-> TRUE]

\* variant of _validate_header that rejects a typ other than "JWT"
_validate_header_TypIsError(hdr, st0) ==
    LET st1 == IF ~Has(hdr, "typ") THEN AddWarn(st0, "typ_missing")
               ELSE IF ~EqualsStr(hdr.map["typ"], "JWT")
               THEN AddErr(st0, SemError("typ_unexpected", "typ", hdr.map["typ"]))
               ELSE st0
    IN  IF ~Has(hdr, "alg")
        THEN [st |-> AddErr(st1, SemError("missing_alg", "alg", JNull)), valid |-> FALSE]
        ELSE IF ~(\E i \in 1..Len(allowed_algs) : EqualsStr(hdr.map["alg"], allowed_algs[i]))
        THEN [st |-> AddErr(st1, [kind |-> "unknown_alg", claim |-> "alg",
                                  value |-> hdr.map["alg"], allowed |-> allowed_algs]),
              valid |-> FALSE]
        ELSE [st |-> st1, valid |-> TRUE]

\* JWTSemanticAnalyzer._validate_header: (state, valid)
_validate_header(hdr, st0) ==
    LET st1 == IF ~Has(hdr, "typ") THEN AddWarn(st0, "typ_missing")
               ELSE IF ~EqualsStr(hdr.map["typ"], "JWT")
               THEN AddWarn(st0, "typ_unexpected")
               ELSE st0
    IN  IF ~Has(hdr, "alg")
        THEN [st |-> AddErr(st1, SemError("missing_alg", "alg", JNull)), valid |-> FALSE]
        ELSE LET alg == hdr.map["alg"] IN
             IF ~(\E i \in 1..Len(allowed_algs) : EqualsStr(alg, allowed_algs[i]))
             THEN [st |-> AddErr(st1, [kind |-> "unknown_alg", claim |-> "alg",
                                       value |-> alg, allowed |-> allowed_algs]),
                   valid |-> FALSE]
             ELSE [st |-> st1, valid |-> TRUE]

\* the loop of _validate_payload over STANDARD_CLAIMS[i..]
RECURSIVE PayloadClaimErrors(_, _)
PayloadClaimErrors(pld, i) ==
    IF i > Len(STANDARD_CLAIMS) THEN <<>>
    ELSE LET claim == STANDARD_CLAIMS[i]
             here  == IF Has(pld, claim)
                         /\ ~isinstance(pld.map[claim], StandardClaimType(claim))
                      THEN <<SemError("payload_type", claim, pld.map[claim].kind)>>
                      ELSE <<>>
         IN  here \o PayloadClaimErrors(pld, i + 1)

\* JWTSemanticAnalyzer._validate_payload: (state, valid)
_validate_payload(pld, st0) ==
    LET st1  == IF DOMAIN pld.map = {} THEN AddWarn(st0, "empty_payload") ELSE st0
        errs == PayloadClaimErrors(pld, 1)
    IN  [st |-> [st1 EXCEPT !.errors = @ \o errs], valid |-> Len(errs) = 0]

\* the two loops of _validate_types, over the names in seq[i..] that obj has
RECURSIVE TypeErrors(_, _, _, _, _)
TypeErrors(obj, seq, i, types, kind) ==
    IF i > Len(seq) THEN <<>>
    ELSE LET key  == seq[i]
             here == IF Has(obj, key) /\ ~isinstance(obj.map[key], types)
                     THEN <<SemError(kind, key, obj.map[key].kind)>>
                     ELSE <<>>
         IN  here \o TypeErrors(obj, seq, i + 1, types, kind)

\* JWTSemanticAnalyzer._validate_types: (state, valid)
_validate_types(hdr, pld, st0) ==
    LET herrs == TypeErrors(hdr, REQUIRED_HEADER_FIELDS, 1, {"str"}, "header_type")
        terrs == TypeErrors(pld, <<"exp", "nbf", "iat">>, 1, {"int"}, "temporal_type")
    IN  [st |-> [st0 EXCEPT !.errors = @ \o herrs \o terrs],
         valid |-> Len(herrs) = 0 /\ Len(terrs) = 0]

IsInt(v) == isinstance(v, {"int"})

Invalid(r, e) == [st |-> AddErr(r.st, e), valid |-> FALSE]

\* _validate_temporal, "Validar expiracion (exp)"; r = (state, valid) so far
CheckExp(pld, r, clock2) ==
    IF ~Has(pld, "exp") THEN [r EXCEPT !.st = AddWarn(@, "no_exp")]
    ELSE IF ~IsInt(pld.map["exp"])
    THEN Invalid(r, SemError("not_timestamp", "exp", pld.map["exp"].kind))
    ELSE IF 2 * pld.map["exp"].n < clock2
    THEN Invalid(r, SemError("expired", "exp", pld.map["exp"].n))
    ELSE r

\* _validate_temporal, "Validar not before (nbf)"
CheckNbf(pld, r, clock2) ==
    IF ~Has(pld, "nbf") THEN r
    ELSE IF ~IsInt(pld.map["nbf"])
    THEN Invalid(r, SemError("not_timestamp", "nbf", pld.map["nbf"].kind))
    ELSE IF 2 * pld.map["nbf"].n > clock2
    THEN Invalid(r, SemError("not_yet_valid", "nbf", pld.map["nbf"].n))
    ELSE r

\* variant of CheckIat that treats a future iat like a future nbf
CheckIat_FutureIsError(pld, r, clock2) ==
    IF ~Has(pld, "iat") THEN r
    ELSE IF ~IsInt(pld.map["iat"])
    THEN Invalid(r, SemError("not_timestamp", "iat", pld.map["iat"].kind))
    ELSE IF 2 * pld.map["iat"].n > clock2
    THEN Invalid(r, SemError("not_yet_valid", "iat", pld.map["iat"].n))
    ELSE r

\* _validate_temporal, "Validar issued at (iat)"
CheckIat(pld, r, clock2) ==
    IF ~Has(pld, "iat") THEN r
    ELSE IF ~IsInt(pld.map["iat"])
    THEN Invalid(r, SemError("not_timestamp", "iat", pld.map["iat"].kind))
    ELSE IF 2 * pld.map["iat"].n > clock2
    THEN [r EXCEPT !.st = AddWarn(@, "iat_future")]
    ELSE r

\* variant of CheckOrder that compares nbf and exp only
CheckOrder_NbfExpOnly(pld, r) ==
    IF /\ Has(pld, "iat") /\ Has(pld, "nbf") /\ Has(pld, "exp")
       /\ IsInt(pld.map["iat"]) /\ IsInt(pld.map["nbf"]) /\ IsInt(pld.map["exp"])
       /\ ~(pld.map["nbf"].n <= pld.map["exp"].n)
    THEN Invalid(r, SemError("temporal_order", "iat,nbf,exp",
                    <<pld.map["iat"].n, pld.map["nbf"].n, pld.map["exp"].n>>))
    ELSE r

\* _validate_temporal, "Validar orden temporal"
CheckOrder(pld, r) ==
    IF /\ Has(pld, "iat") /\ Has(pld, "nbf") /\ Has(pld, "exp")
       /\ IsInt(pld.map["iat"]) /\ IsInt(pld.map["nbf"]) /\ IsInt(pld.map["exp"])
       /\ ~(/\ pld.map["iat"].n <= pld.map["nbf"].n
            /\ pld.map["nbf"].n <= pld.map["exp"].n)
    THEN Invalid(r, SemError("temporal_order", "iat,nbf,exp",
                    <<pld.map["iat"].n, pld.map["nbf"].n, pld.map["exp"].n>>))
    ELSE r

\* JWTSemanticAnalyzer._validate_temporal: (state, valid); clock2 is twice
\* the float datetime.now(timezone.utc).timestamp()
_validate_temporal(pld, st0, clock2) ==
    CheckOrder(pld,
        CheckIat(pld,
            CheckNbf(pld,
                CheckExp(pld, [st |-> st0, valid |-> TRUE], clock2),
                clock2),
            clock2))

\* variant of SemanticReport in which a warning fails the stage too
SemanticReport_WarningsFail(symbols, st, validations) ==
    [phase |-> "semantic",
     raised |-> FALSE,
     success |-> Len(st.errors) = 0 /\ Len(st.warnings) = 0,
     validations |-> validations,
     symbol_table |-> symbols,
     errors |-> st.errors,
     warnings |-> st.warnings,
     statistics |->
        [total_claims |-> Cardinality(DOMAIN symbols),
         standard_claims |->
            Cardinality({k \in DOMAIN symbols : symbols[k].claim_type = "standard"}),
         private_claims |->
            Cardinality({k \in DOMAIN symbols : symbols[k].claim_type = "private"})]]

\* the dictionary JWTSemanticAnalyzer.analyze returns
SemanticReport(symbols, st, validations) ==
    [phase |-> "semantic",
     raised |-> FALSE,
     success |-> Len(st.errors) = 0,
     validations |-> validations,
     symbol_table |-> symbols,
     errors |-> st.errors,
     warnings |-> st.warnings,
     statistics |->
        [total_claims |-> Cardinality(DOMAIN symbols),
         standard_claims |->
            Cardinality({k \in DOMAIN symbols : symbols[k].claim_type = "standard"}),
         private_claims |->
            Cardinality({k \in DOMAIN symbols : symbols[k].claim_type = "private"})]]

\* analyze after _validate_types returned t
AnalyzeTemporal(pld, clock2, symbols, hv, pv, t, m) ==
    SemanticReport(symbols, m.st,
        [header |-> hv, payload |-> pv, types |-> t.valid, temporal |-> m.valid])

\* analyze after _validate_payload returned p
AnalyzeTypes(pld, clock2, symbols, hv, pv, t) ==
    AnalyzeTemporal(pld, clock2, symbols, hv, pv, t,
                    _validate_temporal(pld, t.st, clock2))

\* analyze after _validate_header returned h
AnalyzePayload(hdr, pld, clock2, symbols, hv, p) ==
    AnalyzeTypes(pld, clock2, symbols, hv, p.valid, _validate_types(hdr, pld, p.st))

AnalyzeHeader(hdr, pld, clock2, symbols, h) ==
    AnalyzePayload(hdr, pld, clock2, symbols, h.valid, _validate_payload(pld, h.st))

\* JWTSemanticAnalyzer(header, payload).analyze(): the semantic stage report.
\* raised = TRUE stands for the AttributeError of .items() on a value that
\* is not a dict.
SemanticAnalyze(hdr, pld, clock2) ==
    IF hdr.kind # "dict" \/ pld.kind # "dict"
    THEN [phase |-> "semantic", raised |-> TRUE]
    ELSE AnalyzeHeader(hdr, pld, clock2, _build_symbol_table(hdr, pld),
                       _validate_header(hdr, SemInit))

----------------------------------------------------------------------------
(* app/routes/jwt_routes.py: analyze_jwt *)

\* jsonify(result), 200
Report(tok, ph, overall, message) ==
    [status |-> 200,
     body |-> [token |-> tok, phases |-> ph,
               overall_success |-> overall, message |-> message]]

\* the final jsonify(result), 200 with the decoded information added
FullReport(tok, ph, dec, overall, message) ==
    [status |-> 200,
     body |-> [token |-> tok, phases |-> ph,
               decoded |-> [header |-> dec.header, payload |-> dec.payload,
                            signature |-> dec.signature_b64url],
               overall_success |-> overall, message |-> message]]

\* jsonify({"error": ...}), 400 and jsonify({"error": ..., "token": token}), 500
ErrorResponse(status, error) == [status |-> status, body |-> [error |-> error]]

\* if not token: return 400
RejectMissingToken ==
    /\ pc = "start"
    /\ token = <<>>
    /\ response' = ErrorResponse(400, "Missing 'token' field")
    /\ pc' = "done"
    /\ UNCHANGED <<token, tokens, phases, decoded, header, payload, now2>>

\* variant of StageOutcome without the early return on failure
StageOutcome_NoGate(ph, success, failure_message, next_pc) ==
    /\ phases' = ph
    /\ response' = response
    /\ pc' = next_pc

\* result["phases"][name] = report; return on failure, else go on
StageOutcome(ph, success, failure_message, next_pc) ==
    /\ phases' = ph
    /\ IF ~success
       THEN /\ response' = Report(token, ph, FALSE, failure_message)
            /\ pc' = "done"
       ELSE /\ response' = response
            /\ pc' = next_pc

LexicalOutcome(lexical_analysis) ==
    /\ tokens' = lexical_analysis.tokens
    /\ StageOutcome([lexical |-> lexical_analysis], lexical_analysis.success,
                    "Lexical analysis failed", "lexed")

\* PHASE 1: lexer.analyze() and the return on lexical failure
LexicalPhase ==
    /\ pc = "start"
    /\ token # <<>>
    /\ LexicalOutcome(LexerAnalyze(token))
    /\ UNCHANGED <<token, decoded, header, payload, now2>>

SyntacticOutcome(syntactic_analysis) ==
    StageOutcome([lexical |-> phases.lexical, syntactic |-> syntactic_analysis],
                 syntactic_analysis.success, "Syntactic analysis failed", "parsed")

\* PHASE 2: JWTParser(lexer.tokens).analyze() and the return on failure
SyntacticPhase ==
    /\ pc = "lexed"
    /\ SyntacticOutcome(ParserAnalyze(tokens))
    /\ UNCHANGED <<token, tokens, decoded, header, payload, now2>>

DecodeOutcome(d) ==
    /\ decoded' = d
    /\ IF ~d.ok
       THEN /\ response' = ErrorResponse(500, d.error)
            /\ pc' = "done"
            /\ UNCHANGED <<header, payload>>
       ELSE /\ header' = d.header
            /\ payload' = d.payload
            /\ response' = response
            /\ pc' = "decoded"

\* PHASE 3, first half: JWTService.decode_token_no_verify(token); an
\* exception reaches the handler's except clause
DecodePhase ==
    /\ pc = "parsed"
    /\ DecodeOutcome(decode_token_no_verify(token))
    /\ UNCHANGED <<token, tokens, phases, now2>>

\* result["overall_success"], result["message"] and the final return
OverallOutcome(ph, overall) ==
    /\ phases' = ph
    /\ response' = FullReport(token, ph, decoded, overall,
                      IF overall THEN "Valid JWT token in all analysis phases"
                      ELSE "JWT token has semantic errors")

SemanticOutcome(semantic_analysis) ==
    IF semantic_analysis.raised
    THEN /\ response' = ErrorResponse(500, "AttributeError")
         /\ phases' = phases
    ELSE OverallOutcome([lexical |-> phases.lexical, syntactic |-> phases.syntactic,
                         semantic |-> semantic_analysis],
                        /\ phases.lexical.success
                        /\ phases.syntactic.success
                        /\ semantic_analysis.success)

\* PHASE 3, second half: JWTSemanticAnalyzer(header, payload).analyze() with
\* the clock it reads, and the overall result
SemanticPhase ==
    /\ pc = "decoded"
    /\ \E clock2 \in 0..(2 * MaxTime + 1) :
        /\ now2' = clock2
        /\ SemanticOutcome(SemanticAnalyze(header, payload, clock2))
    /\ pc' = "done"
    /\ UNCHANGED <<token, tokens, decoded, header, payload>>

----------------------------------------------------------------------------
(* The inputs of the pipeline *)

RECURSIVE Join(_)
Join(parts) ==
    IF Len(parts) = 1 THEN parts[1]
    ELSE parts[1] \o <<".">> \o Join(Tail(parts))

\* segments: empty; {} ; 1 ; one with a space; one Base64 cannot decode;
\* one decoding to the invalid JSON text "{" ; {"alg":"none"} ; {"exp":1} ;
\* {} followed by a line break; [">",  "?"] whose encoding has - and _
Segments == {
    <<"W","y","I","-","I","i","w","g","I","C","I","_","I","l","0">>,
    <<>>,
    <<"e","3","0">>,
    <<"M","Q">>,
    <<"e"," ","0">>,
    <<"e">>,
    <<"e","3">>,
    <<"e","y","J","h","b","G","c","i","O","i","J","u","b","2","5","l","I","n","0">>,
    <<"e","y","J","l","e","H","A","i","O","j","F","9">>,
    <<"e","3","0","\n">> }

\* every string of 1..MaxParts segments joined by dots
Init ==
    /\ \E n \in 1..MaxParts : \E p \in [1..n -> Segments] : token = Join(p)
    /\ pc = "start"
    /\ tokens = <<>>
    /\ phases = <<>>
    /\ decoded = None
    /\ header = None
    /\ payload = None
    /\ now2 = 0
    /\ response = None

Next ==
    \/ RejectMissingToken
    \/ LexicalPhase
    \/ SyntacticPhase
    \/ DecodePhase
    \/ SemanticPhase

Spec == Init /\ [][Next]_vars

----------------------------------------------------------------------------
(* The parser on its own, over arbitrary token sequences *)

TokenType == {"HEADER", "PAYLOAD", "SIGNATURE", "DOT", "INVALID", "EOF"}

\* the token sequence of the given kinds; the i-th token carries the i-th
\* Base64URL digit as its text, so that texts tell positions apart
TokensOf(types) ==
    [i \in 1..Len(types) |-> Token(types[i], <<B64URL_DIGITS[i]>>, i - 1)]

\* parser = JWTParser(tokens); parser.analyze()
ParseTokens ==
    /\ pc = "parse"
    /\ phases' = [syntactic |-> ParserAnalyze(tokens)]
    /\ pc' = "done"
    /\ UNCHANGED <<token, tokens, decoded, header, payload, now2, response>>

\* every sequence of at most MaxTokens tokens
InitParse ==
    /\ \E n \in 0..MaxTokens : \E types \in [1..n -> TokenType] :
            tokens = TokensOf(types)
    /\ pc = "parse"
    /\ token = <<>>
    /\ phases = <<>>
    /\ decoded = None
    /\ header = None
    /\ payload = None
    /\ now2 = 0
    /\ response = None

NextParse == ParseTokens

SpecParse == InitParse /\ [][NextParse]_vars

----------------------------------------------------------------------------
(* The semantic analyzer on its own, over header and payload maps *)

Absent == JV("absent", "", 0, <<>>)

\* the dict holding the entries of choices that are not Absent
MakeDict(choices) ==
    JDict([k \in {x \in DOMAIN choices : choices[x].kind # "absent"} |-> choices[k]])

AlgValues ==
    {JStr(allowed_algs[i]) : i \in 1..Len(allowed_algs)}
        \cup {Absent, JStr("XX999"), JStr("hs256"), JStr(""), JInt(1), JList, JNull}

TypValues == {Absent, JStr("JWT"), JStr("at+jwt"), JInt(1)}

TimeValues == {JInt(k) : k \in 0..MaxTime} \cup {Absent, JStr("soon"), JBool(TRUE)}

Headers == {MakeDict([alg |-> a, typ |-> t]) : a \in AlgValues, t \in TypValues}

Payloads == {MakeDict([iat |-> i, nbf |-> n, exp |-> e]) :
                i \in TimeValues, n \in TimeValues, e \in TimeValues}

\* JWTSemanticAnalyzer(header, payload).analyze() at some clock reading
AnalyzeClaims ==
    /\ pc = "semantic"
    /\ \E clock2 \in 0..(2 * MaxTime + 1) :
        /\ now2' = clock2
        /\ phases' = [semantic |-> SemanticAnalyze(header, payload, clock2)]
    /\ pc' = "done"
    /\ UNCHANGED <<token, tokens, decoded, header, payload, response>>

InitSem ==
    /\ header \in Headers
    /\ payload \in Payloads
    /\ pc = "semantic"
    /\ token = <<>>
    /\ tokens = <<>>
    /\ phases = <<>>
    /\ decoded = None
    /\ now2 = 0
    /\ response = None

NextSem == AnalyzeClaims

SpecSem == InitSem /\ [][NextSem]_vars

----------------------------------------------------------------------------
(* Properties of the pipeline (specification Spec) *)

Parts == Split(token)

HasBody(field) == response # None /\ field \in DOMAIN response.body

AlphabetOnly(text) == text # <<>> /\ \A i \in 1..Len(text) : text[i] \in ALPHABET

C2_WellFormedTokens ==
    (/\ pc # "start"
     /\ Len(Parts) = 3
     /\ \A i \in 1..3 : AlphabetOnly(Parts[i])) =>
        /\ phases.lexical.success
        /\ phases.lexical.errors = <<>>
        /\ phases.lexical.token_count = 6
        /\ Len(tokens) = 6
        /\ phases.lexical.tokens = tokens
        /\ [i \in 1..6 |-> tokens[i].type]
              = <<"HEADER", "DOT", "PAYLOAD", "DOT", "SIGNATURE", "EOF">>
        /\ tokens[1].value = Parts[1]
        /\ tokens[3].value = Parts[2]
        /\ tokens[5].value = Parts[3]

\* C2 witness: such an input has passed the lexical stage
C2_Witness ==
    /\ pc = "lexed"
    /\ Len(Parts) = 3
    /\ \A i \in 1..3 : AlphabetOnly(Parts[i])
    /\ Parts[1] # Parts[2]
    /\ Len(tokens) = 6

StageOrder == {{}, {"lexical"}, {"lexical", "syntactic"},
               {"lexical", "syntactic", "semantic"}}

AllSucceeded(ph) == \A k \in DOMAIN ph : ph[k].success

\* the gates between the stages, and the overall result
Gating ==
    /\ DOMAIN phases \in StageOrder
    /\ "syntactic" \in DOMAIN phases => phases.lexical.success
    /\ pc = "parsed" => phases.syntactic.success
    /\ pc = "decoded" => (phases.syntactic.success /\ decoded.ok)
    /\ "semantic" \in DOMAIN phases => (phases.syntactic.success /\ decoded.ok)
    /\ HasBody("overall_success") =>
            /\ response.body.phases = phases
            /\ response.body.overall_success = AllSucceeded(phases)

C4_AsStated ==
    pc = "done" =>
        \A k \in DOMAIN phases :
            /\ HasBody("phases")
            /\ k \in DOMAIN response.body.phases
            /\ response.body.phases[k] = phases[k]

\* C5, as stated: the decoding utility never returns a header or payload
\* that is not a JSON object, so none is handed to the semantic analyzer.
C5_AsStated ==
    /\ (decoded # None /\ decoded.ok) =>
            (decoded.header.kind = "dict" /\ decoded.payload.kind = "dict")
    /\ pc = "decoded" => (header.kind = "dict" /\ payload.kind = "dict")

\* no decoding in a reachable state rests on bytes or escapes that the
\* model of json.loads leaves out
DecodeIsModelled ==
    (pc \in {"decoded", "done"} /\ decoded # None /\ Len(Parts) = 3) =>
        \A i \in 1..2 :
            base64url_decode(Parts[i]).ok => ~Unmodelled(base64url_decode(Parts[i]).bytes)

----------------------------------------------------------------------------
(* Properties of the parser (specification SpecParse) *)

Kinds(toks) == [i \in 1..Len(toks) |-> toks[i].type]

\* C6: whenever parse succeeds the tree's root is JWT with exactly the 5
\* children HEADER, DOT, PAYLOAD, DOT, SIGNATURE in that order, each of
\* HEADER, PAYLOAD and SIGNATURE has exactly one leaf child, and the three
\* leaves carry the texts of the tokens at positions 0, 2 and 4.
C6_TreeShape ==
    (pc = "done" /\ phases.syntactic.success) =>
        LET tree == phases.syntactic.parse_tree IN
        /\ tree # None
        /\ tree.symbol = "JWT"
        /\ Len(tree.children) = 5
        /\ [i \in 1..5 |-> tree.children[i].symbol]
              = <<"HEADER", "DOT", "PAYLOAD", "DOT", "SIGNATURE">>
        /\ \A i \in {2, 4} : tree.children[i].children = <<>>
        /\ Len(tokens) >= 5
        /\ \A i \in {1, 3, 5} :
              /\ Len(tree.children[i].children) = 1
              /\ tree.children[i].children[1].children = <<>>
              /\ tree.children[i].children[1].value = tokens[i].value

\* C6 witness: a parse of 6 tokens has succeeded and returned a tree
C6_Witness ==
    /\ pc = "done"
    /\ Len(tokens) = 6
    /\ phases.syntactic.success
    /\ phases.syntactic.parse_tree # None

\* C7, as stated: for every token sequence parse succeeds only if the kinds
\* are exactly HEADER, DOT, PAYLOAD, DOT, SIGNATURE, EOF, the EOF token being
\* present in the sequence and no token left unconsumed.
C7_AsStated ==
    (pc = "done" /\ phases.syntactic.success) =>
        Kinds(tokens) = <<"HEADER", "DOT", "PAYLOAD", "DOT", "SIGNATURE", "EOF">>

----------------------------------------------------------------------------
(* Properties of the semantic analyzer (specification SpecSem) *)

HasError(r, kind) == \E i \in 1..Len(r.errors) : r.errors[i].kind = kind

HasWarning(r, w) == \E i \in 1..Len(r.warnings) : r.warnings[i] = w

\* the claim is in the payload as a JSON integer
IntClaim(claim) == Has(payload, claim) /\ payload.map[claim].kind = "int"

Claim(claim) == payload.map[claim].n

TemporalErrors == {"expired", "not_yet_valid", "not_timestamp", "temporal_order"}

\* C8: when iat, nbf and exp are all present and integers and
\* iat <= nbf <= exp does not hold, the semantic stage records an ordering
\* error citing the three values and fails, at every clock reading; so when
\* it succeeds on such a payload, iat <= nbf <= exp holds.
C8_TemporalOrder ==
    (pc = "done" /\ IntClaim("iat") /\ IntClaim("nbf") /\ IntClaim("exp")) =>
        LET r  == phases.semantic
            ordered == Claim("iat") <= Claim("nbf") /\ Claim("nbf") <= Claim("exp")
        IN  /\ ~ordered =>
                /\ \E i \in 1..Len(r.errors) :
                      /\ r.errors[i].kind = "temporal_order"
                      /\ r.errors[i].value = <<Claim("iat"), Claim("nbf"), Claim("exp")>>
                /\ ~r.success
                /\ ~r.validations.temporal
            /\ r.success => ordered
            /\ ordered => ~HasError(r, "temporal_order")

\* C8 witness: iat > nbf, and the ordering error is the only error recorded
C8_Witness ==
    /\ pc = "done"
    /\ IntClaim("iat") /\ IntClaim("nbf") /\ IntClaim("exp")
    /\ Claim("iat") > Claim("nbf")
    /\ Len(phases.semantic.errors) = 1
    /\ phases.semantic.errors[1].kind = "temporal_order"

C10_AllowList == {"HS256", "HS384", "HS512", "RS256", "RS384", "RS512",
                  "ES256", "ES384", "ES512", "none"}

AlgAllowed == /\ Has(header, "alg")
              /\ header.map["alg"].kind = "str"
              /\ header.map["alg"].s \in C10_AllowList

\* C10: a header without alg gets a missing-required-field error; an alg
\* outside the allow-list gets an unknown-algorithm error naming the value
\* and the allow-list; either way the header flag and the stage's success
\* are false; an allow-listed alg gets no error about alg.
C10_Algorithm ==
    pc = "done" =>
        LET r == phases.semantic IN
        /\ ~Has(header, "alg") =>
                (HasError(r, "missing_alg") /\ ~r.validations.header /\ ~r.success)
        /\ (Has(header, "alg") /\ ~AlgAllowed) =>
                /\ \E i \in 1..Len(r.errors) :
                      /\ r.errors[i].kind = "unknown_alg"
                      /\ r.errors[i].value = header.map["alg"]
                      /\ Range(r.errors[i].allowed) = C10_AllowList
                /\ ~r.validations.header
                /\ ~r.success
        /\ AlgAllowed =>
                /\ r.validations.header
                /\ \A i \in 1..Len(r.errors) : r.errors[i].claim # "alg"

\* C10 witness: an alg outside the allow-list was the only thing rejected
C10_Witness ==
    /\ pc = "done"
    /\ Has(header, "alg")
    /\ header.map["alg"] = JStr("XX999")
    /\ Len(phases.semantic.errors) = 1
    /\ phases.semantic.errors[1].kind = "unknown_alg"

\* the header with its typ entry set to t (removed when t is Absent)
WithTyp(hdr, t) ==
    IF t.kind = "absent"
    THEN JDict([k \in DOMAIN hdr.map \ {"typ"} |-> hdr.map[k]])
    ELSE JDict([k \in DOMAIN hdr.map \cup {"typ"} |->
                    IF k = "typ" THEN t ELSE hdr.map[k]])

\* typ values of every JSON kind
AnyTyp == TypValues \cup {JBool(TRUE), JNull, JList, JFloat, JDict(<<>>)}

StringTyp == {t \in AnyTyp : t.kind \in {"absent", "str"}}

\* C11, as stated: whatever the header and payload, replacing typ by absent,
\* "JWT" or any other JSON value of any type leaves the error list and the
\* stage's success as they are.
C11_AsStated ==
    pc = "done" =>
        \A t \in AnyTyp :
            LET r == SemanticAnalyze(WithTyp(header, t), payload, now2) IN
            /\ r.errors = phases.semantic.errors
            /\ r.success = phases.semantic.success

\* C11, amended: an absent typ and a typ holding any string only ever
\* produce warnings (replacing one by another leaves the error list, the
\* success and the four flags as they are); a typ that is not a string adds
\* exactly one type error naming typ, which makes the types flag and the
\* success false and leaves the header flag alone.
C11_TypWarnsOnly ==
    pc = "done" =>
        LET plain == SemanticAnalyze(WithTyp(header, Absent), payload, now2) IN
        /\ \A t \in StringTyp :
              ((~Has(header, "typ")) \/ header.map["typ"].kind = "str") =>
                LET r == SemanticAnalyze(WithTyp(header, t), payload, now2) IN
                /\ r.errors = phases.semantic.errors
                /\ r.success = phases.semantic.success
                /\ r.validations = phases.semantic.validations
        /\ \A t \in AnyTyp \ StringTyp :
              LET r == SemanticAnalyze(WithTyp(header, t), payload, now2) IN
              /\ Len(r.errors) = Len(plain.errors) + 1
              /\ \E i \in 1..Len(r.errors) :
                    r.errors[i].kind = "header_type" /\ r.errors[i].claim = "typ"
              /\ ~r.success
              /\ ~r.validations.types
              /\ r.validations.header = plain.validations.header
        /\ (Has(header, "typ") /\ header.map["typ"].kind # "str") =>
              /\ HasError(phases.semantic, "header_type")
              /\ ~phases.semantic.success
        /\ \A i \in 1..Len(phases.semantic.errors) :
              phases.semantic.errors[i].claim = "typ" =>
                    phases.semantic.errors[i].kind = "header_type"

\* C11 witness: a typ other than "JWT" and no typ at all, each with a
\* warning and a successful stage
C11_Witness ==
    /\ pc = "done"
    /\ Has(header, "typ")
    /\ header.map["typ"] = JStr("at+jwt")
    /\ HasWarning(phases.semantic, "typ_unexpected")
    /\ phases.semantic.success
    /\ SemanticAnalyze(WithTyp(header, Absent), payload, now2).success
    /\ HasWarning(SemanticAnalyze(WithTyp(header, Absent), payload, now2), "typ_missing")

----------------------------------------------------------------------------
(* The semantic analyzer over claims of every name and JSON kind *)

\* one value of each JSON kind json.loads can return
ValueKinds == {JStr("s"), JInt(1), JBool(TRUE), JList, JDict(<<>>), JNull, JFloat}

\* the registered claims, a header field name and a private name
ClaimNames == Range(STANDARD_CLAIMS) \cup {"alg", "x"}

\* the payload {n1: v1, n2: v2} (one entry, v2, when the names are equal)
PayloadOf(n1, v1, n2, v2) ==
    JDict([k \in {n1, n2} |-> IF k = n2 THEN v2 ELSE v1])

HeadersOfClaims ==
    {MakeDict([alg |-> a, typ |-> t, kid |-> k, x |-> x]) :
        a \in {Absent, JStr("HS256")}, t \in {Absent, JStr("JWT")},
        k \in {Absent, JStr("k")}, x \in {Absent, JInt(7)}}

\* JWTSemanticAnalyzer(header, payload) for a payload of at most two claims
InitClaims ==
    /\ header \in HeadersOfClaims
    /\ \/ payload = JDict(<<>>)
       \/ \E n1 \in ClaimNames, n2 \in ClaimNames :
            \E v1 \in ValueKinds, v2 \in ValueKinds :
                payload = PayloadOf(n1, v1, n2, v2)
    /\ pc = "semantic"
    /\ token = <<>>
    /\ tokens = <<>>
    /\ phases = <<>>
    /\ decoded = None
    /\ now2 = 0
    /\ response = None

NextClaims == AnalyzeClaims

SpecClaims == InitClaims /\ [][NextClaims]_vars

----------------------------------------------------------------------------
(* Properties of the claim checks (specifications SpecClaims and SpecSem) *)

StandardIn(pld) == {c \in Range(STANDARD_CLAIMS) : Has(pld, c)}

\* the JSON kinds the specification declares for a registered claim
C12_Expected(c) ==
    IF c = "aud" THEN {"str", "list"}
    ELSE IF c \in {"exp", "nbf", "iat"} THEN {"int"}
    ELSE {"str"}

TypeErrorKinds == {"payload_type", "temporal_type", "not_timestamp"}

TypeErrorOn(r, c) ==
    \E i \in 1..Len(r.errors) :
        r.errors[i].kind \in TypeErrorKinds /\ r.errors[i].claim = c

\* C12, as stated: for every registered claim in the payload and every JSON
\* kind of its value, a type-mismatch error is recorded (and the stage
\* fails) exactly when the kind is not the declared one: string for iss,
\* sub, jti; string or array for aud; integer for exp, nbf, iat, so that a
\* boolean or fractional exp, nbf or iat is rejected.
C12_AsStated ==
    pc = "done" =>
        \A c \in StandardIn(payload) :
            /\ payload.map[c].kind \notin C12_Expected(c) =>
                    /\ TypeErrorOn(phases.semantic, c)
                    /\ ~phases.semantic.success
            /\ payload.map[c].kind \in C12_Expected(c) =>
                    ~TypeErrorOn(phases.semantic, c)

\* what the type checks do record: isinstance counts a boolean as an int,
\* every other kind is judged as declared
TypeChecksAsCoded ==
    pc = "done" =>
        \A c \in StandardIn(payload) :
            LET kind == payload.map[c].kind
                accepted == C12_Expected(c) \cup
                            (IF "int" \in C12_Expected(c) THEN {"bool"} ELSE {})
            IN  /\ kind \notin accepted =>
                        /\ TypeErrorOn(phases.semantic, c)
                        /\ ~phases.semantic.success
                        /\ ~phases.semantic.validations.payload
                /\ kind \in accepted => ~TypeErrorOn(phases.semantic, c)

EmptyPayloadSucceeds ==
    /\ pc = "done"
    /\ DOMAIN payload.map = {}
    /\ phases.semantic.success
    /\ Len(phases.semantic.warnings) = 3

\* C16: the symbol table has exactly one entry per name in the union of the
\* header and payload keys; a name of both maps carries the payload's value,
\* scope payload and the payload classification (standard iff registered);
\* a header-only name has scope header and is standard iff typ, alg or kid;
\* the standard and private counts add up to the total.
C16_SymbolTable ==
    pc = "done" =>
        LET tab   == phases.semantic.symbol_table
            stats == phases.semantic.statistics
            names == DOMAIN header.map \cup DOMAIN payload.map
        IN  /\ DOMAIN tab = names
            /\ \A k \in names :
                  /\ tab[k].name = k
                  /\ Has(payload, k) =>
                        /\ tab[k].value = payload.map[k]
                        /\ tab[k].type = payload.map[k].kind
                        /\ tab[k].scope = "payload"
                        /\ tab[k].claim_type = "standard"
                                <=> k \in {"iss", "sub", "aud", "exp", "nbf", "iat", "jti"}
                        /\ tab[k].claim_type \in {"standard", "private"}
                  /\ ~Has(payload, k) =>
                        /\ tab[k].value = header.map[k]
                        /\ tab[k].type = header.map[k].kind
                        /\ tab[k].scope = "header"
                        /\ tab[k].claim_type = "standard" <=> k \in {"typ", "alg", "kid"}
                        /\ tab[k].claim_type \in {"standard", "private"}
            /\ stats.total_claims = Cardinality(names)
            /\ stats.standard_claims + stats.private_claims = stats.total_claims

\* C16 witness: alg and x are in both maps with different values, kid in
\* the header only
C16_Witness ==
    /\ pc = "done"
    /\ Has(header, "alg") /\ Has(payload, "alg")
    /\ Has(header, "x") /\ Has(payload, "x")
    /\ Has(header, "kid")
    /\ header.map["alg"] # payload.map["alg"]
    /\ header.map["x"] # payload.map["x"]
    /\ phases.semantic.symbol_table["alg"].claim_type = "private"
    /\ phases.semantic.statistics.total_claims = 3

----------------------------------------------------------------------------
(* Properties of the lexer (specification Spec) *)

SegmentKinds == <<"HEADER", "PAYLOAD", "SIGNATURE">>

\* the lexical stage has reported on an input of 3 or more parts
Lexed3 == "lexical" \in DOMAIN phases /\ Len(Parts) >= 3

\* C14, as stated: every token of kind HEADER, PAYLOAD or SIGNATURE has a
\* non-empty text of alphabet characters only, and a segment that is empty
\* or holds any other character (a space, a trailing line break) is emitted
\* as INVALID.
C14_AsStated ==
    "lexical" \in DOMAIN phases =>
        LET toks == phases.lexical.tokens IN
        /\ \A i \in 1..Len(toks) :
              toks[i].type \in Range(SegmentKinds) => AlphabetOnly(toks[i].value)
        /\ Len(Parts) >= 3 =>
              \A k \in 1..3 : ~AlphabetOnly(Parts[k]) => toks[2 * k - 1].type = "INVALID"

\* what tokenize does emit: a segment token's text is a non-empty alphabet
\* run, possibly followed by one line break
SegmentTokensAsCoded ==
    Lexed3 =>
        LET toks == phases.lexical.tokens IN
        \A k \in 1..3 :
            LET text == Parts[k]
                n    == Len(text)
            IN  toks[2 * k - 1].type = SegmentKinds[k] <=>
                    \/ AlphabetOnly(text)
                    \/ n >= 2 /\ text[n] = "\n" /\ AlphabetOnly(SubSeq(text, 1, n - 1))

InvalidCount(toks) == Cardinality({i \in 1..Len(toks) : toks[i].type = "INVALID"})

\* C15: on 3 or more parts tokenize scans parts 0, 1 and 2 whatever it
\* found before: exactly 6 tokens built from those parts, DOT, DOT, EOF at
\* indices 1, 3, 5, nothing for later parts; the errors are one per INVALID
\* token plus one structural error iff there are more than 3 parts, in
\* which case the lexical stage fails.
C15_ScansAllSegments ==
    Lexed3 =>
        LET r    == phases.lexical
            toks == r.tokens
        IN  /\ Len(toks) = 6
            /\ r.token_count = 6
            /\ toks[2].type = "DOT" /\ toks[4].type = "DOT" /\ toks[6].type = "EOF"
            /\ toks[2].value = <<".">> /\ toks[4].value = <<".">> /\ toks[6].value = <<>>
            /\ \A k \in 1..3 :
                  /\ toks[2 * k - 1].type \in {SegmentKinds[k], "INVALID"}
                  /\ toks[2 * k - 1].value = Parts[k]
            /\ Len(r.errors) = InvalidCount(toks) + (IF Len(Parts) > 3 THEN 1 ELSE 0)
            /\ Cardinality({i \in 1..Len(r.errors) : r.errors[i].kind = "too_many_parts"})
                    = (IF Len(Parts) > 3 THEN 1 ELSE 0)
            /\ \A k \in 1..3 :
                  toks[2 * k - 1].type = "INVALID" <=>
                      \E i \in 1..Len(r.errors) :
                          /\ r.errors[i].kind = "invalid_chars"
                          /\ r.errors[i].segment = SegmentKinds[k]
            /\ Len(Parts) > 3 => ~r.success

\* C15 witness: 4 parts, the first and the third invalid, the second valid
C15_Witness ==
    /\ Lexed3
    /\ Len(Parts) = 4
    /\ Len(phases.lexical.tokens) = 6
    /\ phases.lexical.tokens[1].type = "INVALID"
    /\ phases.lexical.tokens[3].type = "PAYLOAD"
    /\ phases.lexical.tokens[5].type = "INVALID"
    /\ Len(phases.lexical.errors) = 3

\* the 0-based index in the input of its k-th '.'
RECURSIVE DotIndex(_, _)
DotIndex(k, from) ==
    IF token[from] = "."
    THEN IF k = 1 THEN from - 1 ELSE DotIndex(k - 1, from + 1)
    ELSE DotIndex(k, from + 1)

\* C18: on 3 or more parts each token carries the 0-based offset where it
\* starts in the input: 0 for the first segment, the index of its '.' for
\* each DOT, the preceding DOT's offset plus 1 for the later segments, and
\* len(part0) + len(part1) + len(part2) + 2 for EOF; an invalid-segment
\* error quotes the offset of that segment's INVALID token.
C18_Offsets ==
    Lexed3 =>
        LET r    == phases.lexical
            toks == r.tokens
        IN  /\ toks[1].position = 0
            /\ toks[2].position = DotIndex(1, 1)
            /\ toks[4].position = DotIndex(2, 1)
            /\ toks[3].position = toks[2].position + 1
            /\ toks[5].position = toks[4].position + 1
            /\ toks[6].position = Len(Parts[1]) + Len(Parts[2]) + Len(Parts[3]) + 2
            /\ \A k \in 1..3 :
                  SubSeq(token, toks[2 * k - 1].position + 1,
                         toks[2 * k - 1].position + Len(Parts[k])) = Parts[k]
            /\ \A i \in 1..Len(r.errors) :
                  r.errors[i].kind = "invalid_chars" =>
                      \E k \in 1..3 :
                          /\ r.errors[i].segment = SegmentKinds[k]
                          /\ toks[2 * k - 1].type = "INVALID"
                          /\ r.errors[i].n = toks[2 * k - 1].position

\* C18 witness: segments of different lengths, the last one invalid, and
\* parts beyond the third
C18_Witness ==
    /\ Lexed3
    /\ Len(Parts) = 4
    /\ Len(Parts[1]) > Len(Parts[2])
    /\ Len(Parts[2]) > 0
    /\ Len(phases.lexical.tokens) = 6
    /\ phases.lexical.tokens[5].type = "INVALID"
    /\ phases.lexical.tokens[5].position > 3
    /\ phases.lexical.tokens[6].position < Len(token)

----------------------------------------------------------------------------
(* base64url_encode and base64url_decode on their own, over byte sequences *)

\* bytes whose 6-bit groups reach the digits 'A', '-', '_', alternating bit
\* patterns and both ends of the byte range
ByteValues == {0, 1, 65, 85, 127, 128, 170, 251, 254, 255}

\* text = base64url_encode(input_bytes)
EncodeBytes ==
    /\ pc = "encode"
    /\ token' = base64url_encode(decoded.input_bytes)
    /\ pc' = "encoded"
    /\ UNCHANGED <<tokens, phases, decoded, header, payload, now2, response>>

\* base64url_decode(text)
DecodeText ==
    /\ pc = "encoded"
    /\ decoded' = [input_bytes |-> decoded.input_bytes,
                   output |-> base64url_decode(token)]
    /\ pc' = "done"
    /\ UNCHANGED <<token, tokens, phases, header, payload, now2, response>>

\* every byte sequence of at most MaxBytes bytes
InitB64 ==
    /\ \E n \in 0..MaxBytes : \E b \in [1..n -> ByteValues] :
            decoded = [input_bytes |-> b]
    /\ pc = "encode"
    /\ token = <<>>
    /\ tokens = <<>>
    /\ phases = <<>>
    /\ header = None
    /\ payload = None
    /\ now2 = 0
    /\ response = None

NextB64 == EncodeBytes \/ DecodeText

SpecB64 == InitB64 /\ [][NextB64]_vars

\* C17: for every byte sequence b (the empty one and lengths that are not a
\* multiple of 3 included) base64url_encode(b) holds no '=' and
\* base64url_decode(base64url_encode(b)) = b.
C17_RoundTrip ==
    /\ pc \in {"encoded", "done"} =>
            /\ \A i \in 1..Len(token) : token[i] # "=" /\ token[i] \in ALPHABET
            /\ Len(token) = (4 * Len(decoded.input_bytes) + 2) \div 3
    /\ pc = "done" =>
            /\ decoded.output.ok
            /\ decoded.output.bytes = decoded.input_bytes

\* C17 witness: 4 bytes (one more than a multiple of 3) went round, through
\* a text with both '-' and '_'
C17_Witness ==
    /\ pc = "done"
    /\ Len(decoded.input_bytes) = 4
    /\ decoded.output.ok
    /\ decoded.output.bytes = decoded.input_bytes
    /\ \E i \in 1..Len(token) : token[i] = "-"
    /\ \E i \in 1..Len(token) : token[i] = "_"
    /\ Len(token) = 6

\* the empty byte sequence went round through the empty text
EmptyRoundTrip ==
    /\ pc = "done"
    /\ decoded.input_bytes = <<>>
    /\ token = <<>>
    /\ decoded.output.ok /\ decoded.output.bytes = <<>>

----------------------------------------------------------------------------
(* Properties of the parser's cursor and result (specification SpecParse) *)

GrammarKinds == <<"HEADER", "DOT", "PAYLOAD", "DOT", "SIGNATURE", "EOF">>

\* the kind the parser sees at 0-based index j: past the end of the
\* sequence _current_token answers EOF
KindAt(j) == IF j < Len(tokens) THEN tokens[j + 1].type ELSE "EOF"

PositionAt(j) == IF j < Len(tokens) THEN tokens[j + 1].position ELSE -1

Failing == {j \in 0..5 : KindAt(j) # GrammarKinds[j + 1]}

\* the tokens up to and including index j
Examined(j) == SubSeq(tokens, 1, IF j < Len(tokens) THEN j + 1 ELSE Len(tokens))

\* the index of the first token that does not fit the grammar
FirstFailure == CHOOSE j \in Failing : \A k \in Failing : j <= k

\* C19, as stated: at the first token that does not fit, an INVALID token
\* at a HEADER, PAYLOAD or SIGNATURE position gets the distinct
\* non-alphabet error and the cursor moves past it; any other wrong kind
\* gets a syntax error stating expected kind, found kind and position, and
\* the cursor stays; either way the parse aborts there, no later token is
\* examined, and tokens_consumed is the number of tokens before the failure
\* (plus one for INVALID).  Stated for a failure at a token of the sequence;
\* a failure at its end is covered by CursorAsCoded.
C19_AsStated ==
    (pc = "done" /\ Failing # {} /\ FirstFailure < Len(tokens)) =>
        LET r == phases.syntactic
            j == FirstFailure
        IN  /\ ~r.success
            /\ r.parse_tree = None
            /\ r.errors # <<>>
            /\ (j \in {0, 2, 4} /\ KindAt(j) = "INVALID") =>
                    /\ r.errors[1].kind = "invalid_segment"
                    /\ r.errors[1].position = PositionAt(j)
                    /\ r.tokens_consumed = j + 1
            /\ ~(j \in {0, 2, 4} /\ KindAt(j) = "INVALID") =>
                    /\ r.errors[1].kind = "syntax"
                    /\ r.errors[1].expected = GrammarKinds[j + 1]
                    /\ r.errors[1].found = KindAt(j)
                    /\ r.errors[1].position = PositionAt(j)
                    /\ r.tokens_consumed = j
            /\ ParserAnalyze(Examined(j)) = r

\* what the parser does record: as above, except that a wrong kind at a
\* HEADER, PAYLOAD or SIGNATURE position gets an error that states the
\* expected and the found kind without a position, and that a wrong kind at
\* a DOT or EOF position gets a second, fixed error after the positioned one
CursorAsCoded ==
    pc = "done" =>
        LET r == phases.syntactic IN
        /\ Failing = {} => (r.success /\ r.errors = <<>> /\ r.tokens_consumed = 6)
        /\ Failing # {} =>
            LET j == FirstFailure IN
            /\ ~r.success /\ r.parse_tree = None
            /\ (j \in {0, 2, 4} /\ KindAt(j) = "INVALID") =>
                    /\ Len(r.errors) = 1
                    /\ r.errors[1].kind = "invalid_segment"
                    /\ r.errors[1].position = PositionAt(j)
                    /\ r.tokens_consumed = j + 1
            /\ (j \in {0, 2, 4} /\ KindAt(j) # "INVALID") =>
                    /\ Len(r.errors) = 1
                    /\ r.errors[1].kind = "expected"
                    /\ r.errors[1].expected = GrammarKinds[j + 1]
                    /\ r.errors[1].found = KindAt(j)
                    /\ r.tokens_consumed = j
            /\ j \in {1, 3, 5} =>
                    /\ Len(r.errors) = 2
                    /\ r.errors[1].kind = "syntax"
                    /\ r.errors[1].expected = GrammarKinds[j + 1]
                    /\ r.errors[1].found = KindAt(j)
                    /\ r.errors[1].position = PositionAt(j)
                    /\ r.errors[2].kind \in {"missing_dot1", "missing_dot2", "trailing"}
                    /\ r.tokens_consumed = j
            /\ ParserAnalyze(Examined(j)) = r

\* C20: parse returns a tree exactly when it recorded no error: success iff
\* the error list is empty iff the tree is present; with an error recorded
\* the tree is absent (never a partly built one), and an absent tree comes
\* with at least one error.
C20_TreeIffNoError ==
    pc = "done" =>
        LET r == phases.syntactic IN
        /\ r.success <=> (r.errors = <<>>)
        /\ (r.errors = <<>>) <=> (r.parse_tree # None)
        /\ r.errors # <<>> => r.parse_tree = None
        /\ r.parse_tree = None => Len(r.errors) >= 1
        /\ parse(tokens).parse_tree = r.parse_tree
        /\ parse(tokens).success = r.success

\* C20 witness: HEADER, DOT, PAYLOAD and DOT were recognised, the fifth
\* token was not, and nothing of the tree built so far is returned
C20_Witness ==
    /\ pc = "done"
    /\ Len(tokens) >= 5
    /\ phases.syntactic.tokens_consumed = 4
    /\ phases.syntactic.errors # <<>>
    /\ phases.syntactic.parse_tree = None
    /\ ~phases.syntactic.success

----------------------------------------------------------------------------
(* The parser on the lexer's own tokens (specification Spec) *)

\* the syntactic report accepts the whole token list
Accepts(r) ==
    /\ r.success
    /\ r.errors = <<>>
    /\ r.tokens_consumed = 6
    /\ r.parse_tree # None

\* the parser run on what the lexer returns for the input
ParseOfLexed(input) == ParserAnalyze(LexerAnalyze(input).tokens)

\* C21: whenever the lexical stage succeeds on the input, the syntactic
\* stage run on the lexer's token list succeeds, records no error and
\* consumes all 6 tokens; so analyze_jwt never stops at the syntactic stage,
\* and every token that reaches the decode step has exactly 3 parts.
C21_LexedTokensParse ==
    /\ LexerAnalyze(token).success => Accepts(ParseOfLexed(token))
    /\ pc = "lexed" =>
            /\ phases.lexical.success
            /\ tokens = phases.lexical.tokens
            /\ Len(tokens) = 6
    /\ "syntactic" \in DOMAIN phases =>
            /\ phases.lexical.success
            /\ phases.syntactic = ParseOfLexed(token)
            /\ Accepts(phases.syntactic)
    /\ HasBody("message") => response.body.message # "Syntactic analysis failed"
    /\ (pc \in {"parsed", "decoded"} \/ decoded # None) =>
            /\ Len(Parts) = 3
            /\ Accepts(phases.syntactic)

\* C21 witness: the decode step has been reached by a token whose header
\* segment differs from its payload segment, after both stages accepted it
C21_Witness ==
    /\ pc = "parsed"
    /\ phases.lexical.success
    /\ phases.syntactic.success
    /\ phases.syntactic.tokens_consumed = 6
    /\ Len(Parts) = 3
    /\ Parts[1] # Parts[2]

====
